---- MODULE Spec2Model ----
(***************************************************************************)
(* Model of the skynet NestJS services around hypothesis evaluation:       *)
(* HypothesesService, RelationshipsService, AlertsService and the          *)
(* EventEmitter2 bus that couples them.  Every async handler is cut at its *)
(* awaits: a repository call is one atomic step of the database, the code  *)
(* after the await (an emit, the next call) is a later step, so calls of   *)
(* different requests interleave exactly where Node lets them.             *)
(*                                                                         *)
(* Decimal columns (pValue, hitRate) are fixed-point numbers in units of   *)
(* 1/Scale.                                                                *)
(***************************************************************************)
EXTENDS Integers, Sequences, FiniteSets, TLC

VARIABLES
    hyps,          \* the hypotheses table: hyps[i] is the row with id i
    relationships, \* the relationships table
    alerts,        \* the alerts table
    events,        \* every EventEmitter2.emit so far, in order
    calls,         \* in-flight service calls, one record per request slot
    alertTasks,    \* running handleRelationshipDiscovered listeners
    nreq,          \* how many service calls have been made so far
    corr,          \* the corrector's input and output (Multiple-Testing Corrector)
    evals,         \* the populationSize each evaluation was corrected with
    retry,         \* one fetchWithRetry call (BaseIngestionService)
    poly,          \* PolymarketService: previousPrices and the fetch in progress
    ingestion      \* IngestionScheduler.runAllIngestion and the events table

vars == <<hyps, relationships, alerts, events, calls, alertTasks, nreq, corr, evals, retry, poly, ingestion>>

----------------------------------------------------------------------------
\* Bounds of the model.

MaxHyps == 2
MaxRels == 1
MaxCalls == 2
MaxRequests == 4
MaxPopulation == 100
MaxRetries == 4

\* Resolution of the fixed-point decimals: 1000 units = 1.0.
Scale == 1000

----------------------------------------------------------------------------
\* Entities.

PENDING == "pending"
RUNNING == "running"
COMPLETED == "completed"
FAILED == "failed"

HypothesisStatus == {PENDING, RUNNING, COMPLETED, FAILED}

\* The value of a nullable numeric column that holds nothing.
Null == -1

\* The value of the nullable text column errorMessage that holds nothing.
NullText == "null"

\* Absent property of a request body.
Absent == "absent"

\* 0.05, the raw threshold getStats compares pValue with, in units of 1/Scale.
Alpha == Scale \div 20

\* 0.01 and 0.6, the thresholds of handleRelationshipDiscovered.
AlertMaxPValue == Scale \div 100
AlertMinHitRate == (6 * Scale) \div 10

\* What a request body says of the hypothesis: its text, its null
\* hypothesis and the (eventType, marketAsset, testType) triple.
Templates ==
    { [ hypothesis     |-> "VIX spikes above 25 predict increased equity volatility",
        nullHypothesis |-> "VIX level has no predictive value for future volatility",
        eventType      |-> "vix_spike",
        marketAsset    |-> "SPY",
        testType       |-> "granger_causality" ] }

\* The default of the column lookback_days.
DefaultLookbackDays == 365

\* Request bodies of POST /hypotheses: Partial<Hypothesis>, so a body may
\* carry a status of its own.
HypothesisBodies ==
    { [template |-> t, status |-> s] : t \in Templates, s \in {Absent} \cup HypothesisStatus }

\* Result payloads of updateResults; testResults stands for the test's
\* diagnostics (here the optimal lag).
ResultBodies ==
    { [pValue |-> 5,  hitRate |-> 700, edge |-> 12, sampleSize |-> 40, testResults |-> 2],
      [pValue |-> 30, hitRate |-> 550, edge |-> 3,  sampleSize |-> 25, testResults |-> 7] }

ErrorMessages == {"insufficient data", "singular matrix"}

\* Request bodies of POST /relationships: Partial<Relationship>.
RelationshipBodies ==
    { [template |-> t, pValue |-> p, hitRate |-> h, isSignificant |-> s] :
        t \in Templates, p \in {5, 500}, h \in {550, 700}, s \in {Absent, "false"} }

\* The row TypeORM stores for repository.create(data) + save: the columns the
\* body carries, the entity's defaults for the rest.  createdAt is the time
\* of the insert, counted in inserts: the database stamps the rows in the
\* order it stores them.
NewHypothesis(id, data) ==
    [ id           |-> id,
      hypothesis   |-> data.template.hypothesis,
      nullHypothesis |-> data.template.nullHypothesis,
      eventType    |-> data.template.eventType,
      marketAsset  |-> data.template.marketAsset,
      testType     |-> data.template.testType,
      lookbackDays |-> DefaultLookbackDays,
      status       |-> IF data.status = Absent THEN PENDING ELSE data.status,
      pValue       |-> Null,
      hitRate      |-> Null,
      edge         |-> Null,
      sampleSize   |-> Null,
      testResults  |-> Null,
      errorMessage |-> NullText,
      createdAt    |-> id ]

\* The time of a write to the relationships table, counted in writes to it.
RelationshipsNow ==
    1 + Cardinality({t \in 1 .. MaxRequests :
                       \E i \in 1 .. Len(relationships) : relationships[i].validatedAt >= t})

NewRelationship(id, data) ==
    [ id            |-> id,
      eventType     |-> data.template.eventType,
      marketAsset   |-> data.template.marketAsset,
      pValue        |-> data.pValue,
      hitRate       |-> data.hitRate,
      isSignificant |-> IF data.isSignificant = Absent THEN TRUE ELSE data.isSignificant = "true",
      validatedAt   |-> RelationshipsNow ]

\* What findOne returns when no row matches.
NullRow == [id |-> 0]

\* An id that matches no row (a uuid the table never generated).
MissingId == MaxHyps + 1

\* Ids a request may name: the stored ones and one that matches no row.
RequestIds == (1 .. Len(hyps)) \cup {MissingId}

Slots == 1 .. MaxCalls

Idle == [op |-> "idle", pc |-> "returned"]

\* A request arrives on slot c: the slot holds no running call, and the run
\* has requests left.
Arrives(c) ==
    /\ calls[c].pc = "returned"
    /\ nreq < MaxRequests
    /\ nreq' = nreq + 1

FindOneOrFirst(id) ==
    IF id \in 1 .. Len(hyps) THEN hyps[id]
    ELSE IF Len(hyps) > 0 THEN hyps[1] ELSE NullRow

\* repository.findOne({ where: { id } })
FindOne(id) == IF id \in 1 .. Len(hyps) THEN hyps[id] ELSE NullRow

\* repository.update(id, partial): rewrites the named columns of the row
\* with that id, and nothing when no row has it.
UpdateEveryRow(id, partial) ==
    [ i \in 1 .. Len(hyps) |->
        [ f \in DOMAIN hyps[i] |->
            IF f \in DOMAIN partial THEN partial[f] ELSE hyps[i][f] ] ]

UpdateRow(id, partial) ==
    [ i \in 1 .. Len(hyps) |->
        IF i = id
        THEN [ f \in DOMAIN hyps[i] |->
                 IF f \in DOMAIN partial THEN partial[f] ELSE hyps[i][f] ]
        ELSE hyps[i] ]

----------------------------------------------------------------------------
\* Multiple-Testing Corrector (analysis/stats.py, Bonferroni correction):
\* correct(pValue, populationSize, familyWiseAlpha).

Min(a, b) == IF a <= b THEN a ELSE b

Max(a, b) == IF a >= b THEN a ELSE b

CorrectUncapped(pValue, populationSize, familyWiseAlpha) ==
    [ adjustedPValue |-> pValue * populationSize,
      isSignificant  |-> pValue * populationSize < familyWiseAlpha ]

CorrectDivides(pValue, populationSize, familyWiseAlpha) ==
    [ adjustedPValue |-> Min(Scale, pValue \div populationSize),
      isSignificant  |-> Min(Scale, pValue \div populationSize) < familyWiseAlpha ]

Correct(pValue, populationSize, familyWiseAlpha) ==
    LET adjustedPValue == Min(Scale, pValue * populationSize)
    IN [ adjustedPValue |-> adjustedPValue,
         isSignificant  |-> adjustedPValue < familyWiseAlpha ]

\* One run of the corrector, as the record of its inputs and outputs.
Corrected(pValue, populationSize) ==
    [ pValue |-> pValue, populationSize |-> populationSize ]
        @@ Correct(pValue, populationSize, Alpha)

\* No fetchWithRetry call is running.
NoRetry == [pc |-> "idle"]

\* PolymarketService after construction: previousPrices = new Map(), no
\* fetch made.
NoFetch ==
    [pc |-> "idle", previousPrices |-> << >>, log |-> << >>, errors |-> << >>, ret |-> << >>]

\* The sources runAllIngestion ingests.
Sources == {"edgar", "fred", "gdelt", "polymarket"}

\* The callers of EventsService.createBatch: the ingest method of each
\* source and EventsController.createBatch.
Callers == Sources \cup {"api"}

\* No ingestion is running, no request is being served and the events
\* table is empty.
NoIngestion ==
    [ run |-> "idle",
      src |-> [c \in Callers |-> [pc |-> "idle", raw |-> << >>, saved |-> << >>]],
      rows |-> << >> ]

----------------------------------------------------------------------------
Init ==
    /\ nreq = 0
    /\ hyps = << >>
    /\ relationships = << >>
    /\ alerts = << >>
    /\ events = << >>
    /\ calls = [c \in Slots |-> Idle]
    /\ alertTasks = {}
    /\ corr = Corrected(0, 1)
    /\ evals = << >>
    /\ retry = NoRetry
    /\ poly = NoFetch
    /\ ingestion = NoIngestion

----------------------------------------------------------------------------
\* HypothesesService.create

CreateSave(c, data) ==
    /\ Arrives(c)
    /\ Len(hyps) < MaxHyps
    /\ LET saved == NewHypothesis(Len(hyps) + 1, data)
       IN /\ hyps' = Append(hyps, saved)
          /\ calls' = [calls EXCEPT ![c] = [op |-> "create", pc |-> "emit", saved |-> saved]]
    /\ UNCHANGED <<relationships, alerts, events, alertTasks, corr, evals, retry, poly, ingestion>>

CreateEmit(c) ==
    /\ calls[c].op = "create" /\ calls[c].pc = "emit"
    /\ LET saved == calls[c].saved
       IN /\ events' = Append(events,
                [ type |-> "hypothesis.created", hypothesisId |-> saved.id,
                  eventType |-> saved.eventType, marketAsset |-> saved.marketAsset ])
          /\ calls' = [calls EXCEPT ![c] = [op |-> "create", pc |-> "returned", ret |-> saved]]
    /\ UNCHANGED <<hyps, relationships, alerts, alertTasks, nreq, corr, evals, retry, poly, ingestion>>

----------------------------------------------------------------------------
\* HypothesesService.queueForTesting

QueueFindOne(c, id) ==
    /\ Arrives(c)
    /\ LET hypothesis == FindOne(id)
       IN calls' = [calls EXCEPT ![c] =
            IF hypothesis = NullRow
            THEN [op |-> "queueForTesting", pc |-> "returned", id |-> id, ret |-> NullRow]
            ELSE [op |-> "queueForTesting", pc |-> "update", id |-> id,
                  \* of the row it read the call later uses these columns only
                  hypothesis |-> [ eventType   |-> hypothesis.eventType,
                                   marketAsset |-> hypothesis.marketAsset,
                                   testType    |-> hypothesis.testType ]]]
    /\ UNCHANGED <<hyps, relationships, alerts, events, alertTasks, corr, evals, retry, poly, ingestion>>

QueueUpdate(c) ==
    /\ calls[c].op = "queueForTesting" /\ calls[c].pc = "update"
    /\ hyps' = UpdateRow(calls[c].id, [status |-> RUNNING])
    /\ calls' = [calls EXCEPT ![c].pc = "emit"]
    /\ UNCHANGED <<relationships, alerts, events, alertTasks, nreq, corr, evals, retry, poly, ingestion>>

QueueEmit(c) ==
    /\ calls[c].op = "queueForTesting" /\ calls[c].pc = "emit"
    /\ events' = Append(events,
          [ type |-> "analysis.requested", hypothesisId |-> calls[c].id,
            eventType |-> calls[c].hypothesis.eventType,
            marketAsset |-> calls[c].hypothesis.marketAsset,
            testType |-> calls[c].hypothesis.testType ])
    /\ calls' = [calls EXCEPT ![c].pc = "findOne"]
    /\ UNCHANGED <<hyps, relationships, alerts, alertTasks, nreq, corr, evals, retry, poly, ingestion>>

QueueReturn(c) ==
    /\ calls[c].op = "queueForTesting" /\ calls[c].pc = "findOne"
    /\ calls' = [calls EXCEPT ![c] =
          [op |-> "queueForTesting", pc |-> "returned", id |-> calls[c].id,
           ret |-> FindOne(calls[c].id)]]
    /\ UNCHANGED <<hyps, relationships, alerts, events, alertTasks, nreq, corr, evals, retry, poly, ingestion>>

----------------------------------------------------------------------------
\* HypothesesService.updateResults (POST /hypotheses/:id/results)

UpdateResultsUpdate(c, id, results) ==
    /\ Arrives(c)
    /\ hyps' = UpdateRow(id,
          [ status |-> COMPLETED, pValue |-> results.pValue, hitRate |-> results.hitRate,
            edge |-> results.edge, sampleSize |-> results.sampleSize,
            testResults |-> results.testResults ])
    /\ calls' = [calls EXCEPT ![c] =
          [op |-> "updateResults", pc |-> "emit", id |-> id, results |-> results]]
    /\ UNCHANGED <<relationships, alerts, events, alertTasks, corr, evals, retry, poly, ingestion>>

\* updateResults announcing a discovery along with the completion.
UpdateResultsEmitDiscovery(c) ==
    /\ calls[c].op = "updateResults" /\ calls[c].pc = "emit"
    /\ events' = events \o
          << [ type |-> "hypothesis.tested", hypothesisId |-> calls[c].id,
               status |-> COMPLETED, pValue |-> calls[c].results.pValue,
               hitRate |-> calls[c].results.hitRate ],
             [ type |-> "relationship.discovered", relationshipId |-> calls[c].id,
               eventType |-> "vix_spike", marketAsset |-> "SPY",
               pValue |-> calls[c].results.pValue, hitRate |-> calls[c].results.hitRate ] >>
    /\ calls' = [calls EXCEPT ![c].pc = "findOne"]
    /\ UNCHANGED <<hyps, relationships, alerts, alertTasks, nreq, corr, evals, retry, poly, ingestion>>

UpdateResultsEmit(c) ==
    /\ calls[c].op = "updateResults" /\ calls[c].pc = "emit"
    /\ events' = Append(events,
          [ type |-> "hypothesis.tested", hypothesisId |-> calls[c].id,
            status |-> COMPLETED, pValue |-> calls[c].results.pValue,
            hitRate |-> calls[c].results.hitRate ])
    /\ calls' = [calls EXCEPT ![c].pc = "findOne"]
    /\ UNCHANGED <<hyps, relationships, alerts, alertTasks, nreq, corr, evals, retry, poly, ingestion>>

UpdateResultsReturn(c) ==
    /\ calls[c].op = "updateResults" /\ calls[c].pc = "findOne"
    /\ calls' = [calls EXCEPT ![c] =
          [op |-> "updateResults", pc |-> "returned", id |-> calls[c].id,
           results |-> calls[c].results, ret |-> FindOne(calls[c].id)]]
    /\ UNCHANGED <<hyps, relationships, alerts, events, alertTasks, nreq, corr, evals, retry, poly, ingestion>>

----------------------------------------------------------------------------
\* HypothesesService.markFailed

MarkFailedUpdate(c, id, errorMessage) ==
    /\ Arrives(c)
    /\ hyps' = UpdateRow(id, [status |-> FAILED, errorMessage |-> errorMessage])
    /\ calls' = [calls EXCEPT ![c] =
          [op |-> "markFailed", pc |-> "emit", id |-> id, errorMessage |-> errorMessage]]
    /\ UNCHANGED <<relationships, alerts, events, alertTasks, corr, evals, retry, poly, ingestion>>

MarkFailedEmit(c) ==
    /\ calls[c].op = "markFailed" /\ calls[c].pc = "emit"
    /\ events' = Append(events,
          [ type |-> "hypothesis.tested", hypothesisId |-> calls[c].id, status |-> FAILED ])
    /\ calls' = [calls EXCEPT ![c].pc = "findOne"]
    /\ UNCHANGED <<hyps, relationships, alerts, alertTasks, nreq, corr, evals, retry, poly, ingestion>>

MarkFailedReturn(c) ==
    /\ calls[c].op = "markFailed" /\ calls[c].pc = "findOne"
    /\ calls' = [calls EXCEPT ![c] =
          [op |-> "markFailed", pc |-> "returned", id |-> calls[c].id,
           errorMessage |-> calls[c].errorMessage, ret |-> FindOne(calls[c].id)]]
    /\ UNCHANGED <<hyps, relationships, alerts, events, alertTasks, nreq, corr, evals, retry, poly, ingestion>>

----------------------------------------------------------------------------
\* HypothesesService.getStats

\* all.filter(pred).length
Matching(all, status) == {i \in 1 .. Len(all) : all[i].status = status}

StatsSignificantAnyStatus(all) ==
    [ total       |-> Len(all),
      pending     |-> Cardinality(Matching(all, PENDING)),
      running     |-> Cardinality(Matching(all, RUNNING)),
      completed   |-> Cardinality(Matching(all, COMPLETED)),
      failed      |-> Cardinality(Matching(all, FAILED)),
      significant |-> Cardinality({i \in 1 .. Len(all) :
                         all[i].pValue # Null /\ all[i].pValue < Alpha}) ]

Stats(all) ==
    [ total       |-> Len(all),
      pending     |-> Cardinality(Matching(all, PENDING)),
      running     |-> Cardinality(Matching(all, RUNNING)),
      completed   |-> Cardinality(Matching(all, COMPLETED)),
      failed      |-> Cardinality(Matching(all, FAILED)),
      significant |-> Cardinality({i \in Matching(all, COMPLETED) :
                         all[i].pValue # Null /\ all[i].pValue < Alpha}) ]

GetStats(c) ==
    /\ Arrives(c)
    /\ calls' = [calls EXCEPT ![c] = [op |-> "getStats", pc |-> "returned", ret |-> Stats(hyps)]]
    /\ UNCHANGED <<hyps, relationships, alerts, events, alertTasks, corr, evals, retry, poly, ingestion>>

----------------------------------------------------------------------------
\* HypothesesService.findPending (GET /hypotheses/pending):
\* find({ where: { status: PENDING }, order: { createdAt: 'ASC' } })

\* The rows a where clause on status selects.
WhereStatus(all, status) == {all[i] : i \in Matching(all, status)}

Latest(rows) == CHOOSE r \in rows : \A o \in rows : r.createdAt >= o.createdAt

\* The row an ascending order on createdAt puts first.
Earliest(rows) == CHOOSE r \in rows : \A o \in rows : r.createdAt <= o.createdAt

\* order: { createdAt: 'ASC' }
RECURSIVE OrderByCreatedAt(_)
OrderByCreatedAt(rows) ==
    IF rows = {} THEN << >>
    ELSE LET first == Earliest(rows)
         IN <<first>> \o OrderByCreatedAt(rows \ {first})

FindPending(c) ==
    /\ Arrives(c)
    /\ calls' = [calls EXCEPT ![c] =
          [op |-> "findPending", pc |-> "returned",
           ret |-> OrderByCreatedAt(WhereStatus(hyps, PENDING))]]
    /\ UNCHANGED <<hyps, relationships, alerts, events, alertTasks, corr, evals, retry, poly, ingestion>>

----------------------------------------------------------------------------
\* AlertsService.handleRelationshipDiscovered, the @OnEvent listener of
\* relationship.discovered.  emit() runs it synchronously up to its first
\* await, the save inside AlertsService.create.

AlertData(payload) ==
    [ signalType     |-> "relationship_discovered",
      severity       |-> "high",
      confidence     |-> payload.hitRate,
      relationshipId |-> payload.relationshipId ]

HandleRelationshipDiscoveredInclusive(payload) ==
    IF payload.pValue <= AlertMaxPValue /\ payload.hitRate >= AlertMinHitRate
    THEN {[pc |-> "save", data |-> AlertData(payload)]}
    ELSE {}

HandleRelationshipDiscovered(payload) ==
    IF payload.pValue < AlertMaxPValue /\ payload.hitRate > AlertMinHitRate
    THEN {[pc |-> "save", data |-> AlertData(payload)]}
    ELSE {}

\* AlertsService.create, as the listener runs it.
AlertSave(t) ==
    /\ t \in alertTasks /\ t.pc = "save"
    /\ LET saved == [id |-> Len(alerts) + 1] @@ t.data
       IN /\ alerts' = Append(alerts, saved)
          /\ alertTasks' = (alertTasks \ {t}) \cup {[pc |-> "emit", saved |-> saved]}
    /\ UNCHANGED <<hyps, relationships, events, calls, nreq, corr, evals, retry, poly, ingestion>>

AlertEmit(t) ==
    /\ t \in alertTasks /\ t.pc = "emit"
    /\ events' = Append(events,
          [ type |-> "alert.triggered", alertId |-> t.saved.id,
            signalType |-> t.saved.signalType, severity |-> t.saved.severity,
            relationshipId |-> t.saved.relationshipId ])
    /\ alertTasks' = alertTasks \ {t}
    /\ UNCHANGED <<hyps, relationships, alerts, calls, nreq, corr, evals, retry, poly, ingestion>>

----------------------------------------------------------------------------
\* RelationshipsService.create (POST /relationships)

RelationshipCreateSave(c, data) ==
    /\ Arrives(c)
    /\ Len(relationships) < MaxRels
    /\ LET saved == NewRelationship(Len(relationships) + 1, data)
       IN /\ relationships' = Append(relationships, saved)
          /\ calls' = [calls EXCEPT ![c] =
                [op |-> "relationships.create", pc |-> "emit", saved |-> saved]]
    /\ UNCHANGED <<hyps, alerts, events, alertTasks, corr, evals, retry, poly, ingestion>>

RelationshipCreateEmit(c) ==
    /\ calls[c].op = "relationships.create" /\ calls[c].pc = "emit"
    /\ LET saved == calls[c].saved
           payload == [ type |-> "relationship.discovered", relationshipId |-> saved.id,
                        eventType |-> saved.eventType, marketAsset |-> saved.marketAsset,
                        pValue |-> saved.pValue, hitRate |-> saved.hitRate ]
       IN /\ events' = Append(events, payload)
          /\ alertTasks' = alertTasks \cup HandleRelationshipDiscovered(payload)
          /\ calls' = [calls EXCEPT ![c] =
                [op |-> "relationships.create", pc |-> "returned", ret |-> saved]]
    /\ UNCHANGED <<hyps, relationships, alerts, nreq, corr, evals, retry, poly, ingestion>>

----------------------------------------------------------------------------
\* RelationshipsService.update and markValidated (POST /relationships/:id/validate)

\* Ids a request may name: the stored relationships and one that matches no row.
RelationshipRequestIds == (1 .. Len(relationships)) \cup {MaxRels + 1}

\* Partial<Relationship> bodies of update: the invalidation flag.
RelationshipPatches == { [isSignificant |-> FALSE] }

\* repository.findOne({ where: { id } })
RelationshipFindOne(id) == IF id \in 1 .. Len(relationships) THEN relationships[id] ELSE NullRow

DeleteRelationshipRow(id, partial) ==
    [ i \in 1 .. Cardinality({j \in 1 .. Len(relationships) : j # id}) |->
        relationships[IF i < id THEN i ELSE i + 1] ]

\* repository.update(id, partial): rewrites the named columns of the row
\* with that id and stamps its @UpdateDateColumn.
UpdateRelationshipRow(id, partial) ==
    [ i \in 1 .. Len(relationships) |->
        IF i = id
        THEN [ f \in DOMAIN relationships[i] |->
                 IF f \in DOMAIN partial THEN partial[f] ELSE relationships[i][f] ]
        ELSE relationships[i] ]

RelationshipUpdate(c, id, data) ==
    /\ Arrives(c)
    /\ relationships' = UpdateRelationshipRow(id, data @@ [validatedAt |-> RelationshipsNow])
    /\ calls' = [calls EXCEPT ![c] = [op |-> "relationships.update", pc |-> "findOne", id |-> id]]
    /\ UNCHANGED <<hyps, alerts, events, alertTasks, corr, evals, retry, poly, ingestion>>

RelationshipUpdateReturn(c) ==
    /\ calls[c].op = "relationships.update" /\ calls[c].pc = "findOne"
    /\ calls' = [calls EXCEPT ![c] =
          [op |-> "relationships.update", pc |-> "returned", id |-> calls[c].id,
           ret |-> RelationshipFindOne(calls[c].id)]]
    /\ UNCHANGED <<hyps, relationships, alerts, events, alertTasks, nreq, corr, evals, retry, poly, ingestion>>

MarkValidatedUpdate(c, id) ==
    /\ Arrives(c)
    /\ relationships' = UpdateRelationshipRow(id, [validatedAt |-> RelationshipsNow])
    /\ calls' = [calls EXCEPT ![c] = [op |-> "markValidated", pc |-> "findOne", id |-> id]]
    /\ UNCHANGED <<hyps, alerts, events, alertTasks, corr, evals, retry, poly, ingestion>>

MarkValidatedFindOne(c) ==
    /\ calls[c].op = "markValidated" /\ calls[c].pc = "findOne"
    /\ calls' = [calls EXCEPT ![c] =
          [op |-> "markValidated", pc |-> "emit", id |-> calls[c].id,
           relationship |-> RelationshipFindOne(calls[c].id)]]
    /\ UNCHANGED <<hyps, relationships, alerts, events, alertTasks, nreq, corr, evals, retry, poly, ingestion>>

MarkValidatedEmit(c) ==
    /\ calls[c].op = "markValidated" /\ calls[c].pc = "emit"
    /\ events' = IF calls[c].relationship # NullRow
                 THEN Append(events,
                        [type |-> "relationship.validated", relationshipId |-> calls[c].id])
                 ELSE events
    /\ calls' = [calls EXCEPT ![c] =
          [op |-> "markValidated", pc |-> "returned", id |-> calls[c].id,
           ret |-> calls[c].relationship]]
    /\ UNCHANGED <<hyps, relationships, alerts, alertTasks, nreq, corr, evals, retry, poly, ingestion>>

Next ==
    \/ \E c \in Slots, data \in HypothesisBodies : CreateSave(c, data)
    \/ \E c \in Slots : CreateEmit(c)
    \/ \E c \in Slots, id \in RequestIds : QueueFindOne(c, id)
    \/ \E c \in Slots : QueueUpdate(c)
    \/ \E c \in Slots : QueueEmit(c)
    \/ \E c \in Slots : QueueReturn(c)
    \/ \E c \in Slots, id \in RequestIds, results \in ResultBodies :
          UpdateResultsUpdate(c, id, results)
    \/ \E c \in Slots : UpdateResultsEmit(c)
    \/ \E c \in Slots : UpdateResultsReturn(c)
    \/ \E c \in Slots, id \in RequestIds, m \in ErrorMessages : MarkFailedUpdate(c, id, m)
    \/ \E c \in Slots : MarkFailedEmit(c)
    \/ \E c \in Slots : MarkFailedReturn(c)
    \/ \E c \in Slots : GetStats(c)
    \/ \E c \in Slots : FindPending(c)
    \/ \E c \in Slots, data \in RelationshipBodies : RelationshipCreateSave(c, data)
    \/ \E c \in Slots : RelationshipCreateEmit(c)
    \/ \E c \in Slots, id \in RelationshipRequestIds, data \in RelationshipPatches :
          RelationshipUpdate(c, id, data)
    \/ \E c \in Slots : RelationshipUpdateReturn(c)
    \/ \E c \in Slots, id \in RelationshipRequestIds : MarkValidatedUpdate(c, id)
    \/ \E c \in Slots : MarkValidatedFindOne(c)
    \/ \E c \in Slots : MarkValidatedEmit(c)
    \/ \E t \in alertTasks : AlertSave(t)
    \/ \E t \in alertTasks : AlertEmit(t)

Spec == Init /\ [][Next]_vars

----------------------------------------------------------------------------
\* The corrector on its own: any pValue in [0, 1], corrected against a
\* population that grows by one completed Verdict at a time.

InitCorrector ==
    /\ nreq = 0
    /\ hyps = << >>
    /\ relationships = << >>
    /\ alerts = << >>
    /\ events = << >>
    /\ calls = [c \in Slots |-> Idle]
    /\ alertTasks = {}
    /\ \E pValue \in 0 .. Scale : corr = Corrected(pValue, 1)
    /\ evals = << >>
    /\ retry = NoRetry
    /\ poly = NoFetch
    /\ ingestion = NoIngestion

Recorrect ==
    /\ corr.populationSize < MaxPopulation
    /\ corr' = Corrected(corr.pValue, corr.populationSize + 1)
    /\ UNCHANGED <<hyps, relationships, alerts, events, calls, alertTasks, nreq, evals, retry, poly, ingestion>>

NextCorrector == Recorrect

SpecCorrector == InitCorrector /\ [][NextCorrector]_vars

----------------------------------------------------------------------------
\* BaseIngestionService.fetchWithRetry(fn, retries = 3, delay = 1000).
\* The k-th invocation of fn resolves with value k or rejects with error k;
\* retry.log records the invocations and the sleeps in order.

FnResolved(k) == [kind |-> "call", ok |-> TRUE, n |-> k]

FnRejected(k) == [kind |-> "call", ok |-> FALSE, n |-> k]

Slept(ms) == [kind |-> "sleep", ms |-> ms]

\* Math.pow(2, i)
RECURSIVE Pow2(_)
Pow2(i) == IF i = 0 THEN 1 ELSE 2 * Pow2(i - 1)

BackoffLinear(delay, i) == delay * (i + 1)

\* delay * Math.pow(2, i)
Backoff(delay, i) == delay * Pow2(i)

\* the loop condition i < retries
Loops(i, retries) == i < retries

RetriesLeftOffByOne(i, retries) == i < retries

\* the catch block's test i < retries - 1
RetriesLeft(i, retries) == i < retries - 1

NextIndexStuck(i) == i

\* i++
NextIndex(i) == i + 1

Delays == {1000, 250, 1}

InitRetry ==
    /\ nreq = 0
    /\ hyps = << >>
    /\ relationships = << >>
    /\ alerts = << >>
    /\ events = << >>
    /\ calls = [c \in Slots |-> Idle]
    /\ alertTasks = {}
    /\ corr = Corrected(0, 1)
    /\ evals = << >>
    /\ poly = NoFetch
    /\ ingestion = NoIngestion
    /\ \E retries \in 0 .. MaxRetries, delay \in Delays :
          retry = [ pc |-> "loop", retries |-> retries, delay |-> delay, i |-> 0,
                    log |-> << >>, outcome |-> "none", result |-> 0 ]

RetryUnchanged ==
    UNCHANGED <<hyps, relationships, alerts, events, calls, alertTasks, nreq, corr, evals, poly, ingestion>>

\* return await fn(), fn resolving
RetryFnResolves ==
    /\ retry.pc = "loop"
    /\ Loops(retry.i, retry.retries)
    /\ LET k == Cardinality({j \in 1 .. Len(retry.log) : retry.log[j].kind = "call"}) + 1
       IN retry' = [retry EXCEPT !.pc = "done", !.log = Append(@, FnResolved(k)),
                                 !.outcome = "returned", !.result = k]
    /\ RetryUnchanged

\* await fn(), fn rejecting: control enters the catch block
RetryFnRejects ==
    /\ retry.pc = "loop"
    /\ Loops(retry.i, retry.retries)
    /\ LET k == Cardinality({j \in 1 .. Len(retry.log) : retry.log[j].kind = "call"}) + 1
       IN retry' = [retry EXCEPT !.pc = "catch", !.log = Append(@, FnRejected(k)),
                                 !.result = k]
    /\ RetryUnchanged

\* the catch block: sleep before another attempt, or rethrow
RetryCatch ==
    /\ retry.pc = "catch"
    /\ IF RetriesLeft(retry.i, retry.retries)
       THEN retry' = [retry EXCEPT !.pc = "sleep",
                         !.log = Append(@, Slept(Backoff(retry.delay, retry.i)))]
       ELSE retry' = [retry EXCEPT !.pc = "done", !.outcome = "thrown"]
    /\ RetryUnchanged

\* the sleep's timer fires and the loop goes on
RetryWakes ==
    /\ retry.pc = "sleep"
    /\ retry' = [retry EXCEPT !.pc = "loop", !.i = NextIndex(@)]
    /\ RetryUnchanged

\* the loop ends without a return or a throw: throw new Error('Should not reach here')
RetryFallsThrough ==
    /\ retry.pc = "loop"
    /\ ~Loops(retry.i, retry.retries)
    /\ retry' = [retry EXCEPT !.pc = "done", !.outcome = "thrown", !.result = 0]
    /\ RetryUnchanged

NextRetry ==
    \/ RetryFnResolves
    \/ RetryFnRejects
    \/ RetryCatch
    \/ RetryWakes
    \/ RetryFallsThrough

SpecRetry == InitRetry /\ [][NextRetry]_vars

\* Every invocation of fn and every sleep terminates, and the event loop
\* runs what is ready.
SpecRetryFair == SpecRetry /\ WF_vars(NextRetry)

----------------------------------------------------------------------------
\* The Evaluator (the analysis worker) completing evaluations through the
\* service: for a hypothesis whose analysis was requested it reads the
\* population (GET /hypotheses/stats: the completed hypotheses, plus the
\* one being evaluated), corrects its result with it, and posts the result
\* (POST /hypotheses/:id/results).  The two requests are separate calls of
\* the service.

\* The run starts with n hypotheses created and queued, all Running.
InitEvaluator ==
    /\ \E n \in 1 .. MaxHyps, t \in Templates :
          /\ hyps = [ i \in 1 .. n |->
                        [ NewHypothesis(i, [template |-> t, status |-> Absent])
                            EXCEPT !.status = RUNNING ] ]
          /\ events = [ k \in 1 .. 2 * n |->
                          IF k <= n
                          THEN [ type |-> "hypothesis.created", hypothesisId |-> k,
                                 eventType |-> t.eventType, marketAsset |-> t.marketAsset ]
                          ELSE [ type |-> "analysis.requested", hypothesisId |-> k - n,
                                 eventType |-> t.eventType, marketAsset |-> t.marketAsset,
                                 testType |-> t.testType ] ]
          /\ nreq = 2 * n
    /\ relationships = << >>
    /\ alerts = << >>
    /\ calls = [c \in Slots |-> Idle]
    /\ alertTasks = {}
    /\ corr = Corrected(0, 1)
    /\ evals = << >>
    /\ retry = NoRetry
    /\ poly = NoFetch
    /\ ingestion = NoIngestion

\* The evaluation of hypothesis id has begun or is over.
Evaluated(id) ==
    \/ \E k \in 1 .. Len(evals) : evals[k].hypothesisId = id
    \/ \E c \in Slots : calls[c].op = "evaluate" /\ calls[c].id = id

\* The worker has a result for a requested hypothesis and reads the
\* population it is to be corrected with.
EvaluateRead(c, id, results) ==
    /\ calls[c].pc = "returned"
    /\ \E k \in 1 .. Len(events) :
          events[k].type = "analysis.requested" /\ events[k].hypothesisId = id
    /\ ~Evaluated(id)
    /\ calls' = [calls EXCEPT ![c] =
          [op |-> "evaluate", pc |-> "update", id |-> id, results |-> results,
           populationSize |-> Stats(hyps).completed + 1]]
    /\ nreq' = nreq + 1
    /\ UNCHANGED <<hyps, relationships, alerts, events, alertTasks, corr, evals, retry, poly, ingestion>>

\* The worker posts the corrected result: the update of updateResults.
EvaluateUpdate(c) ==
    /\ calls[c].op = "evaluate" /\ calls[c].pc = "update"
    /\ hyps' = UpdateRow(calls[c].id,
          [ status |-> COMPLETED, pValue |-> calls[c].results.pValue,
            hitRate |-> calls[c].results.hitRate, edge |-> calls[c].results.edge,
            sampleSize |-> calls[c].results.sampleSize,
            testResults |-> calls[c].results.testResults ])
    /\ evals' = Append(evals,
          [ hypothesisId |-> calls[c].id, populationSize |-> calls[c].populationSize ]
            @@ Correct(calls[c].results.pValue, calls[c].populationSize, Alpha))
    /\ calls' = [calls EXCEPT ![c] =
          [op |-> "updateResults", pc |-> "emit", id |-> calls[c].id,
           results |-> calls[c].results]]
    /\ nreq' = nreq + 1
    /\ UNCHANGED <<relationships, alerts, events, alertTasks, corr, retry, poly, ingestion>>

NextEvaluator ==
    \/ \E c \in Slots, id \in 1 .. Len(hyps), results \in ResultBodies : EvaluateRead(c, id, results)
    \/ \E c \in Slots : EvaluateUpdate(c)
    \/ \E c \in Slots : UpdateResultsEmit(c)
    \/ \E c \in Slots : UpdateResultsReturn(c)

SpecEvaluator == InitEvaluator /\ [][NextEvaluator]_vars

----------------------------------------------------------------------------
\* HypothesesService.generateCommonHypotheses (POST /hypotheses/generate-common)

\* const commonTests
CommonTests ==
    << [ hypothesis     |-> "Insider buying clusters predict stock outperformance",
         nullHypothesis |-> "Insider buying has no predictive value for future returns",
         eventType      |-> "insider_buy",
         marketAsset    |-> "equity_sector",
         testType       |-> "event_study" ],
       [ hypothesis     |-> "VIX spikes above 25 predict increased equity volatility",
         nullHypothesis |-> "VIX level has no predictive value for future volatility",
         eventType      |-> "vix_spike",
         marketAsset    |-> "SPY",
         testType       |-> "granger_causality" ],
       [ hypothesis     |-> "Geopolitical conflict events predict oil price volatility",
         nullHypothesis |-> "Conflict events have no effect on oil price volatility",
         eventType      |-> "conflict",
         marketAsset    |-> "WTI",
         testType       |-> "event_study" ],
       [ hypothesis     |-> "Fed speech sentiment predicts treasury yield movements",
         nullHypothesis |-> "Fed speech sentiment has no predictive value for yields",
         eventType      |-> "fed_speech",
         marketAsset    |-> "TLT",
         testType       |-> "correlation" ],
       [ hypothesis     |-> "Prediction market probability shifts lead equity sector moves",
         nullHypothesis |-> "Prediction markets do not lead equity price movements",
         eventType      |-> "polymarket_shift",
         marketAsset    |-> "sector_etf",
         testType       |-> "granger_causality" ] >>

WhereTestType(test) == {i \in 1 .. Len(hyps) : hyps[i].testType = test.testType}

\* The rows the where clause { eventType, marketAsset, testType } selects;
\* findOne yields one of them, or null when there is none.
WhereTest(test) ==
    {i \in 1 .. Len(hyps) :
        /\ hyps[i].eventType = test.eventType
        /\ hyps[i].marketAsset = test.marketAsset
        /\ hyps[i].testType = test.testType}

\* What the loop does after a test: the next test, or the return.
Advance(call, hypotheses) ==
    IF call.k = Len(CommonTests)
    THEN [op |-> "generateCommonHypotheses", pc |-> "returned", ret |-> hypotheses]
    ELSE [op |-> "generateCommonHypotheses", pc |-> "findOne", k |-> call.k + 1,
          hypotheses |-> hypotheses]

GenerateCall(c) ==
    /\ Arrives(c)
    /\ calls' = [calls EXCEPT ![c] =
          [op |-> "generateCommonHypotheses", pc |-> "findOne", k |-> 1, hypotheses |-> << >>]]
    /\ UNCHANGED <<hyps, relationships, alerts, events, alertTasks, corr, evals, retry, poly, ingestion>>

\* A call made while no other call is running.
GenerateCallAlone(c) ==
    /\ \A d \in Slots : calls[d].pc = "returned"
    /\ GenerateCall(c)

GenerateFindOne(c) ==
    /\ calls[c].op = "generateCommonHypotheses" /\ calls[c].pc = "findOne"
    /\ calls' = [calls EXCEPT ![c] =
          IF WhereTest(CommonTests[calls[c].k]) # {}
          THEN Advance(calls[c], calls[c].hypotheses)
          ELSE [calls[c] EXCEPT !.pc = "save"]]
    /\ UNCHANGED <<hyps, relationships, alerts, events, alertTasks, nreq, corr, evals, retry, poly, ingestion>>

\* this.create({ ...test, aiGenerated: false }): the save
GenerateSave(c) ==
    /\ calls[c].op = "generateCommonHypotheses" /\ calls[c].pc = "save"
    /\ LET saved == NewHypothesis(Len(hyps) + 1,
                       [template |-> CommonTests[calls[c].k], status |-> Absent])
       IN /\ hyps' = Append(hyps, saved)
          /\ calls' = [calls EXCEPT ![c] =
                [op |-> "generateCommonHypotheses", pc |-> "emit", k |-> calls[c].k,
                 hypotheses |-> calls[c].hypotheses, saved |-> saved]]
    /\ UNCHANGED <<relationships, alerts, events, alertTasks, nreq, corr, evals, retry, poly, ingestion>>

\* this.create: the emit, then hypotheses.push(created)
GenerateEmit(c) ==
    /\ calls[c].op = "generateCommonHypotheses" /\ calls[c].pc = "emit"
    /\ LET saved == calls[c].saved
       IN /\ events' = Append(events,
                [ type |-> "hypothesis.created", hypothesisId |-> saved.id,
                  eventType |-> saved.eventType, marketAsset |-> saved.marketAsset ])
          /\ calls' = [calls EXCEPT ![c] = Advance(calls[c], Append(calls[c].hypotheses, saved))]
    /\ UNCHANGED <<hyps, relationships, alerts, alertTasks, nreq, corr, evals, retry, poly, ingestion>>

\* Calls of generateCommonHypotheses, any number at a time.
NextGenerate ==
    \/ \E c \in Slots : GenerateCall(c)
    \/ \E c \in Slots : GenerateFindOne(c)
    \/ \E c \in Slots : GenerateSave(c)
    \/ \E c \in Slots : GenerateEmit(c)

SpecGenerate == Init /\ [][NextGenerate]_vars

\* Calls of generateCommonHypotheses, one after the other.
NextGenerateSequential ==
    \/ \E c \in Slots : GenerateCallAlone(c)
    \/ \E c \in Slots : GenerateFindOne(c)
    \/ \E c \in Slots : GenerateSave(c)
    \/ \E c \in Slots : GenerateEmit(c)

SpecGenerateSequential == Init /\ [][NextGenerateSequential]_vars

----------------------------------------------------------------------------
\* Relationship discoveries and the alerts they raise, at and around the
\* thresholds of handleRelationshipDiscovered.

\* Bodies of POST /relationships with pValue below, at and above 0.01 and
\* hitRate below, at and above 0.6.
ThresholdBodies ==
    { [template |-> t, pValue |-> p, hitRate |-> h, isSignificant |-> s] :
        t \in Templates,
        p \in {AlertMaxPValue - 1, AlertMaxPValue, AlertMaxPValue + 1},
        h \in {AlertMinHitRate - 1, AlertMinHitRate, AlertMinHitRate + 1},
        s \in {Absent, "false"} }

NextAlerts ==
    \/ \E c \in Slots, data \in ThresholdBodies : RelationshipCreateSave(c, data)
    \/ \E c \in Slots : RelationshipCreateEmit(c)
    \/ \E c \in Slots, id \in RelationshipRequestIds : MarkValidatedUpdate(c, id)
    \/ \E c \in Slots : MarkValidatedFindOne(c)
    \/ \E c \in Slots : MarkValidatedEmit(c)
    \/ \E t \in alertTasks : AlertSave(t)
    \/ \E t \in alertTasks : AlertEmit(t)

SpecAlerts == Init /\ [][NextAlerts]_vars

\* Every awaited save settles and its continuation runs.
SpecAlertsFair ==
    /\ SpecAlerts
    /\ WF_vars(\E c \in Slots : RelationshipCreateEmit(c))
    /\ WF_vars(\E t \in alertTasks : AlertSave(t))
    /\ WF_vars(\E t \in alertTasks : AlertEmit(t))

----------------------------------------------------------------------------
\* PolymarketService.fetch: one call at a time.  Prices are in units of
\* 1/Scale; poly.log records the responses of the fetches that succeeded,
\* poly.errors the errors the catch logged (each with the number of
\* responses received before it) and poly.ret the RawEvents the last fetch
\* returned.

MaxFetches == 3

\* condition_id of the markets the API lists, in the order it lists them
\* (order=volume, descending), and their volume in dollars.
MarketIds == <<"0xaaa", "0xbbb">>

MarketVolume == [m \in {"0xaaa", "0xbbb"} |-> IF m = "0xaaa" THEN 150000 ELSE 50000]

\* outcomePrices[0] of a market: 0.4, 0.419 and 0.42, and 0.
OutcomePrices == {0, (400 * Scale) \div 1000, (419 * Scale) \div 1000, (420 * Scale) \div 1000}

\* A market of the response; outcomePrices may be missing.
MarketRecords(m) ==
    { [condition_id |-> m, volume |-> MarketVolume[m]] }
        \cup { [condition_id |-> m, volume |-> MarketVolume[m], outcomePrices |-> p] :
                 p \in OutcomePrices }

\* The responses of GET /markets: any of the markets, each at most once.
Responses ==
    { << >> }
        \cup { <<r>> : r \in MarketRecords(MarketIds[1]) \cup MarketRecords(MarketIds[2]) }
        \cup { <<r1, r2>> : r1 \in MarketRecords(MarketIds[1]), r2 \in MarketRecords(MarketIds[2]) }

Abs(x) == IF x < 0 THEN -x ELSE x

\* parseFloat(market.outcomePrices?.[0] || '0')
CurrentPrice(market) ==
    IF "outcomePrices" \in DOMAIN market THEN market.outcomePrices ELSE 0

\* previousPrice > 0 ? (priceDelta / previousPrice) * 100 : 0, in units of
\* 1/Scale percent.
PercentChange(currentPrice, previousPrice) ==
    IF previousPrice > 0
    THEN LET priceDelta == currentPrice - previousPrice
             magnitude == (Abs(priceDelta) * 100 * Scale) \div previousPrice
         IN IF priceDelta < 0 THEN -magnitude ELSE magnitude
    ELSE 0

IsSignificantMoveStrict(percentChange) == Abs(percentChange) > 5 * Scale

\* Math.abs(percentChange) >= 5
IsSignificantMove(percentChange) == Abs(percentChange) >= 5 * Scale

DetectPriceMovement(market, previousPrices) ==
    LET currentPrice == CurrentPrice(market)
    IN IF market.condition_id \in DOMAIN previousPrices
       THEN LET previousPrice == previousPrices[market.condition_id]
                percentChange == PercentChange(currentPrice, previousPrice)
            IN IF IsSignificantMove(percentChange)
               THEN << [ eventType |-> "polymarket_price_move",
                         entity |-> market.condition_id,
                         value |-> percentChange,
                         currentPrice |-> currentPrice,
                         previousPrice |-> previousPrice,
                         direction |-> IF currentPrice - previousPrice > 0
                                       THEN "up" ELSE "down" ] >>
               ELSE << >>
       ELSE << >>

DetectVolumeSpike(market) ==
    IF market.volume > 100000
    THEN << [ eventType |-> "polymarket_high_volume", entity |-> market.condition_id,
              value |-> market.volume ] >>
    ELSE << >>

\* The first loop of fetch: the events of every market, in order.
RECURSIVE MarketEvents(_, _)
MarketEvents(markets, previousPrices) ==
    IF markets = << >> THEN << >>
    ELSE DetectPriceMovement(Head(markets), previousPrices)
           \o DetectVolumeSpike(Head(markets))
           \o MarketEvents(Tail(markets), previousPrices)

\* The second loop of fetch: previousPrices.set(condition_id, price) for
\* every market, in order.
RECURSIVE UpdatePrices(_, _)
UpdatePrices(markets, previousPrices) ==
    IF markets = << >> THEN previousPrices
    ELSE LET market == Head(markets)
             set == [ m \in DOMAIN previousPrices \cup {market.condition_id} |->
                        IF m = market.condition_id THEN CurrentPrice(market)
                        ELSE previousPrices[m] ]
         IN UpdatePrices(Tail(markets), set)

\* fetch is called and awaits fetchActiveMarkets.
PolymarketFetch ==
    /\ poly.pc \in {"idle", "returned"}
    /\ Len(poly.log) + Len(poly.errors) < MaxFetches
    /\ poly' = [poly EXCEPT !.pc = "fetching"]
    /\ UNCHANGED <<hyps, relationships, alerts, events, calls, alertTasks, nreq, corr, evals, retry, ingestion>>

CatchFetchErrorForgetsPrices(p) ==
    [p EXCEPT !.pc = "returned", !.ret = << >>, !.previousPrices = << >>,
              !.errors = Append(@, Len(p.log))]

\* catch (error) { this.logger.error(...) }, then return events, still empty.
CatchFetchError(p) ==
    [p EXCEPT !.pc = "returned", !.ret = << >>, !.errors = Append(@, Len(p.log))]

\* fetchActiveMarkets throws: the catch logs it, and fetch returns no event.
PolymarketFetchFails ==
    /\ poly.pc = "fetching"
    /\ poly' = CatchFetchError(poly)
    /\ UNCHANGED <<hyps, relationships, alerts, events, calls, alertTasks, nreq, corr, evals, retry, ingestion>>

\* fetchActiveMarkets resolves: both loops run without an await.
PolymarketFetchResolves(markets) ==
    /\ poly.pc = "fetching"
    /\ poly' = [ pc |-> "returned",
                 previousPrices |-> UpdatePrices(markets, poly.previousPrices),
                 log |-> Append(poly.log, markets),
                 errors |-> poly.errors,
                 ret |-> MarketEvents(markets, poly.previousPrices) ]
    /\ UNCHANGED <<hyps, relationships, alerts, events, calls, alertTasks, nreq, corr, evals, retry, ingestion>>

NextPolymarket ==
    \/ PolymarketFetch
    \/ PolymarketFetchFails
    \/ \E markets \in Responses : PolymarketFetchResolves(markets)

SpecPolymarket == Init /\ [][NextPolymarket]_vars

----------------------------------------------------------------------------
\* IngestionScheduler.runAllIngestion and EventsService.createBatch.
\* ingestion.src[s] is the ingest method of source s: where it is, the
\* RawEvents its fetch returned and the entities its save returned;
\* ingestion.src["api"] is a POST /events/batch request, raw being its
\* body; ingestion.rows is the events table, rows[i] being the row with
\* id i.

MaxBatch == 2

\* The eventType of the RawEvents each source's fetch returns.
SourceEventType(s) ==
    CASE s = "edgar" -> "insider_trade"
      [] s = "fred" -> "cpi"
      [] s = "gdelt" -> "conflict"
      [] s = "polymarket" -> "polymarket_high_volume"

\* What a source's fetch may resolve with: up to MaxBatch RawEvents.
FetchResults(s) ==
    { [i \in 1 .. n |-> [eventType |-> SourceEventType(s), value |-> i]] : n \in 0 .. MaxBatch }

\* The source of the events each caller saves: the bodies posted to
\* /events/batch are of a source that is not ingested.
SourceOf(c) == IF c = "api" THEN "acled" ELSE c

MaxBody == 1

\* The bodies posted to /events/batch: up to MaxBody events, none included.
Bodies ==
    { [i \in 1 .. n |-> [eventType |-> "conflict", value |-> i]] : n \in 0 .. MaxBody }

\* rawEvents.map((raw) => ({ ..., source, eventType: raw.eventType, ... }))
MapRawEvents(rawEvents, source) ==
    [i \in 1 .. Len(rawEvents) |->
        [source |-> source, eventType |-> rawEvents[i].eventType, value |-> rawEvents[i].value]]

\* eventsRepository.save(entities): the entities with the ids the table
\* gave them.
SaveEntities(entities, rows) ==
    [i \in 1 .. Len(entities) |->
        [ id |-> Len(rows) + i, source |-> entities[i].source,
          eventType |-> entities[i].eventType, value |-> entities[i].value ]]

EventBatchCreatedPayloadFirstOnly(saved) ==
    [ type |-> "event.batch.created",
      count |-> Len(saved),
      source |-> IF saved # << >> THEN saved[1].source ELSE "unknown",
      eventIds |-> [i \in 1 .. (IF saved # << >> THEN 1 ELSE 0) |-> saved[i].id] ]

\* { count: saved.length, source: saved[0]?.source || 'unknown',
\*   eventIds: saved.map((e) => e.id) }
EventBatchCreatedPayload(saved) ==
    [ type |-> "event.batch.created",
      count |-> Len(saved),
      source |-> IF saved # << >> THEN saved[1].source ELSE "unknown",
      eventIds |-> [i \in 1 .. Len(saved) |-> saved[i].id] ]

IngestCatchRejectsAll(src, s) ==
    [t \in Callers |->
        IF src[t].pc \in {"fetch", "save", "emit"} THEN [src[t] EXCEPT !.pc = "failed"]
        ELSE src[t]]

\* catch (error) { this.logger.error(`... ingestion failed`) } of the ingest
\* method of source s: the method returns.
IngestCatch(src, s) == [src EXCEPT ![s].pc = "failed"]

IngestionUnchanged ==
    UNCHANGED <<hyps, relationships, alerts, calls, alertTasks, nreq, corr, evals, retry, poly>>

\* runAllIngestion calls the four ingest methods inside Promise.all; each
\* runs up to its await of fetch().
RunAllIngestion ==
    /\ ingestion.run = "idle"
    /\ ingestion' = [ingestion EXCEPT
                        !.run = "running",
                        !.src = [c \in Callers |->
                                    IF c \in Sources THEN [@[c] EXCEPT !.pc = "fetch"]
                                    ELSE @[c]]]
    /\ UNCHANGED events
    /\ IngestionUnchanged

\* fetch() of source s rejects.
IngestFetchRejects(s) ==
    /\ ingestion.src[s].pc = "fetch"
    /\ ingestion' = [ingestion EXCEPT !.src = IngestCatch(@, s)]
    /\ UNCHANGED events
    /\ IngestionUnchanged

\* fetch() of source s resolves: saveEvents returns at once when there is
\* no event, otherwise it maps them and awaits createBatch, which awaits
\* the save.
IngestFetchResolves(s, rawEvents) ==
    /\ ingestion.src[s].pc = "fetch"
    /\ ingestion' = [ingestion EXCEPT
                        !.src[s].raw = rawEvents,
                        !.src[s].pc = IF Len(rawEvents) = 0 THEN "complete" ELSE "save"]
    /\ UNCHANGED events
    /\ IngestionUnchanged

\* eventsRepository.save rejects: nothing is stored, createBatch rejects;
\* saveEvents rejects and the ingest method catches, or the request fails.
CreateBatchSaveRejects(s) ==
    /\ ingestion.src[s].pc = "save"
    /\ ingestion' = [ingestion EXCEPT !.src = IngestCatch(@, s)]
    /\ UNCHANGED events
    /\ IngestionUnchanged

\* eventsRepository.save stores the batch.
CreateBatchSaveResolves(s) ==
    /\ ingestion.src[s].pc = "save"
    /\ LET saved == SaveEntities(MapRawEvents(ingestion.src[s].raw, SourceOf(s)),
                                 ingestion.rows)
       IN ingestion' = [ingestion EXCEPT
                           !.rows = @ \o saved,
                           !.src[s].saved = saved,
                           !.src[s].pc = "emit"]
    /\ UNCHANGED events
    /\ IngestionUnchanged

\* createBatch continues after the save: it emits EVENT_BATCH_CREATED and
\* returns, saveEvents returns and the ingest method logs its completion.
CreateBatchEmit(s) ==
    /\ ingestion.src[s].pc = "emit"
    /\ events' = Append(events, EventBatchCreatedPayload(ingestion.src[s].saved))
    /\ ingestion' = [ingestion EXCEPT !.src[s].pc = "complete"]
    /\ IngestionUnchanged

\* Promise.all resolves once the four ingest methods have returned.
RunAllIngestionCompletes ==
    /\ ingestion.run = "running"
    /\ \A s \in Sources : ingestion.src[s].pc \in {"complete", "failed"}
    /\ ingestion' = [ingestion EXCEPT !.run = "complete"]
    /\ UNCHANGED events
    /\ IngestionUnchanged

NextIngestion ==
    \/ RunAllIngestion
    \/ \E s \in Sources : IngestFetchRejects(s)
    \/ \E s \in Sources : \E rawEvents \in FetchResults(s) : IngestFetchResolves(s, rawEvents)
    \/ \E s \in Sources : CreateBatchSaveRejects(s)
    \/ \E s \in Sources : CreateBatchSaveResolves(s)
    \/ \E s \in Sources : CreateBatchEmit(s)
    \/ RunAllIngestionCompletes

SpecIngestion == Init /\ [][NextIngestion]_vars

\* POST /events/batch: EventsController.createBatch calls
\* EventsService.createBatch with the body, which awaits the save.
PostEventsBatch(body) ==
    /\ ingestion.src["api"].pc = "idle"
    /\ ingestion' = [ingestion EXCEPT !.src["api"].raw = body, !.src["api"].pc = "save"]
    /\ UNCHANGED events
    /\ IngestionUnchanged

NextEventsBatch ==
    \/ \E body \in Bodies : PostEventsBatch(body)
    \/ \E c \in Callers : CreateBatchSaveRejects(c)
    \/ \E c \in Callers : CreateBatchSaveResolves(c)
    \/ \E c \in Callers : CreateBatchEmit(c)
    \/ RunAllIngestion
    \/ \E s \in Sources : IngestFetchRejects(s)
    \/ \E s \in Sources : \E rawEvents \in FetchResults(s) : IngestFetchResolves(s, rawEvents)
    \/ RunAllIngestionCompletes

SpecEventsBatch == Init /\ [][NextEventsBatch]_vars

\* Every awaited fetch and save settles.
SpecIngestionFair == SpecIngestion /\ WF_vars(NextIngestion)

----------------------------------------------------------------------------
\* Vocabulary of the properties.

StoredIds == 1 .. Len(hyps)

IsRequested(e, h) == e.type = "analysis.requested" /\ e.hypothesisId = h

IsTested(e, h) == e.type = "hypothesis.tested" /\ e.hypothesisId = h

\* The population the corrector is given: the hypotheses with a completed
\* Verdict, the one being evaluated included.
PopulationSize(all) ==
    Max(1, Cardinality({i \in Matching(all, COMPLETED) : all[i].pValue # Null}))

\* The completed hypotheses whose Bonferroni-adjusted pValue is below alpha.
SignificantAfterCorrection(all) ==
    Cardinality({i \in Matching(all, COMPLETED) :
        /\ all[i].pValue # Null
        /\ Correct(all[i].pValue, PopulationSize(all), Alpha).isSignificant})

\* Call c takes a step of updateResults in this transition.
UpdateResultsStep(c) ==
    /\ calls'[c] # calls[c]
    /\ \/ calls[c].op = "updateResults" /\ calls[c].pc # "returned"
       \/ calls'[c].op = "updateResults" /\ calls'[c].pc = "emit"

\* The results a stepping updateResults call carries.
StepResults(c) == calls'[c].results

NonSignificant(results, all) ==
    ~Correct(results.pValue, PopulationSize(all), Alpha).isSignificant

TestedPayload(id, results) ==
    [ type |-> "hypothesis.tested", hypothesisId |-> id, status |-> COMPLETED,
      pValue |-> results.pValue, hitRate |-> results.hitRate ]

----------------------------------------------------------------------------
\* C1: the status of a stored hypothesis becomes Completed only by a
\* transition from Running (never from Pending or Failed).
C1_CompletedOnlyFromRunning ==
    [][\A i \in StoredIds :
          (hyps'[i].status = COMPLETED /\ hyps[i].status # COMPLETED)
              => hyps[i].status = RUNNING]_vars

\* C2: between two ANALYSIS_REQUESTED emissions for the same hypothesis id
\* there is always a HYPOTHESIS_TESTED emission for that id.
C2_OneEvaluationInFlight ==
    \A h \in StoredIds : \A i, j \in 1 .. Len(events) :
        (i < j /\ IsRequested(events[i], h) /\ IsRequested(events[j], h))
            => \E k \in (i + 1) .. (j - 1) : IsTested(events[k], h)

\* C3: HYPOTHESIS_TESTED is emitted once per evaluation run: two emissions
\* of it for the same hypothesis are separated by the ANALYSIS_REQUESTED
\* that started the second run.
C3_TestedOncePerRun ==
    \A h \in StoredIds : \A i, j \in 1 .. Len(events) :
        (i < j /\ IsTested(events[i], h) /\ IsTested(events[j], h))
            => \E k \in (i + 1) .. (j - 1) : IsRequested(events[k], h)

\* C4: every hypothesis has status Pending immediately after create stored it.
C4_CreatedPending ==
    [][\A i \in (Len(hyps) + 1) .. Len(hyps') : hyps'[i].status = PENDING]_vars

\* C5: the status of a stored hypothesis becomes Failed only by a
\* transition from Running (never from Pending or Completed).
C5_FailedOnlyFromRunning ==
    [][\A i \in StoredIds :
          (hyps'[i].status = FAILED /\ hyps[i].status # FAILED)
              => hyps[i].status = RUNNING]_vars

\* C6: every Relationship that RelationshipsService.create stores has a
\* pValue whose Bonferroni correction against the current population is
\* below the family-wise alpha.
C6_RelationshipClearsBar ==
    [][\A i \in (Len(relationships) + 1) .. Len(relationships') :
          Correct(relationships'[i].pValue, PopulationSize(hyps), Alpha).isSignificant]_vars

\* C7: getStats counts a hypothesis as significant only if its
\* Bonferroni-adjusted pValue, against the population of completed
\* hypotheses, is below alpha.
C7_StatsSignificantIsCorrected ==
    Stats(hyps).significant <= SignificantAfterCorrection(hyps)

\* C8: correct yields adjustedPValue = min(1, pValue * populationSize), so
\* adjustedPValue >= pValue, adjustedPValue = 1 whenever
\* pValue * populationSize >= 1, and isSignificant holds exactly when
\* adjustedPValue < familyWiseAlpha.
C8_BonferroniCorrection ==
    /\ corr.adjustedPValue <= Scale
    /\ corr.adjustedPValue <= corr.pValue * corr.populationSize
    /\ corr.adjustedPValue \in {Scale, corr.pValue * corr.populationSize}
    /\ corr.adjustedPValue >= corr.pValue
    /\ (corr.pValue * corr.populationSize >= Scale => corr.adjustedPValue = Scale)
    /\ (corr.isSignificant <=> corr.adjustedPValue < Alpha)

\* C8's case: a pValue below 1 that the population pushes to the cap.
C8_Witness ==
    /\ corr.pValue > 0 /\ corr.pValue < Scale
    /\ corr.populationSize > 1
    /\ corr.pValue * corr.populationSize > Scale
    /\ corr.adjustedPValue = Scale

\* C9: for a fixed pValue, a growing population never decreases
\* adjustedPValue, and a result that is not significant never becomes
\* significant at a larger population.
C9_CorrectionMonotone ==
    [][(corr'.pValue = corr.pValue /\ corr'.populationSize >= corr.populationSize)
          => /\ corr'.adjustedPValue >= corr.adjustedPValue
             /\ (~corr.isSignificant => ~corr'.isSignificant)]_vars

\* C9's case (Scenario C): raw pValue 0.001, significant on its own, is no
\* longer significant in a population of 100.
C9_Witness ==
    /\ corr.pValue * 1000 = Scale
    /\ corr.populationSize = 100
    /\ corr.adjustedPValue = 100 * corr.pValue
    /\ ~corr.isSignificant
    /\ Correct(corr.pValue, 1, Alpha).isSignificant

\* C10 as stated: an updateResults call with a non-significant result
\* emits no event.
C10_NonSignificantEmitsNothing ==
    [][\A c \in Slots :
          (UpdateResultsStep(c) /\ NonSignificant(StepResults(c), hyps'))
              => events' = events]_vars

\* C10 as the code has it: an updateResults call with a non-significant
\* result emits HYPOTHESIS_TESTED (status completed) for its id, once, after
\* its update, and gives no other downstream signal: it emits nothing else,
\* stores no Relationship and no Alert and starts no alert listener.
C10_NonSignificantEmitsOnlyTested ==
    [][\A c \in Slots :
          (UpdateResultsStep(c) /\ NonSignificant(StepResults(c), hyps'))
              => /\ IF calls[c].pc = "emit"
                    THEN events' = Append(events,
                                      TestedPayload(calls[c].id, calls[c].results))
                    ELSE events' = events
                 /\ UNCHANGED <<relationships, alerts, alertTasks>>]_vars

\* C10's case: an updateResults call with a result that is not significant
\* in the current population has just emitted.
C10_Witness ==
    \E c \in Slots :
        /\ calls[c].op = "updateResults" /\ calls[c].pc = "findOne"
        /\ calls[c].id \in StoredIds
        /\ hyps[calls[c].id].status = COMPLETED
        /\ NonSignificant(calls[c].results, hyps)
        /\ Len(events) > 0
        /\ events[Len(events)] = TestedPayload(calls[c].id, calls[c].results)

\* The result columns of a hypothesis row: its Verdict.
Verdict(h) ==
    [ pValue |-> h.pValue, hitRate |-> h.hitRate, edge |-> h.edge,
      sampleSize |-> h.sampleSize, testResults |-> h.testResults ]

\* C11: when an updateResults call has completed a hypothesis that had been
\* queued, with a result that is significant in the current population, a
\* Relationship with that hypothesis's eventType and marketAsset is stored
\* and RELATIONSHIP_DISCOVERED was emitted for it.
C11_SignificantCreatesRelationship ==
    \A c \in Slots :
        ( /\ calls[c].op = "updateResults" /\ calls[c].pc = "returned"
          /\ calls[c].id \in StoredIds
          /\ \E k \in 1 .. Len(events) : IsRequested(events[k], calls[c].id)
          /\ hyps[calls[c].id].status = COMPLETED
          /\ ~NonSignificant(calls[c].results, hyps) )
        => \E r \in 1 .. Len(relationships) :
              /\ relationships[r].eventType = hyps[calls[c].id].eventType
              /\ relationships[r].marketAsset = hyps[calls[c].id].marketAsset
              /\ \E k \in 1 .. Len(events) :
                    /\ events[k].type = "relationship.discovered"
                    /\ events[k].relationshipId = relationships[r].id

\* C12: once a hypothesis holds a Verdict (its pValue is stored), no step
\* changes its pValue, hitRate, edge, sampleSize or testResults.
C12_VerdictImmutable ==
    [][\A i \in StoredIds :
          hyps[i].pValue # Null => Verdict(hyps'[i]) = Verdict(hyps[i])]_vars

\* Call c takes a step of queueForTesting, updateResults or markFailed in
\* this transition.
EvaluatorStep(c) ==
    /\ calls'[c] # calls[c]
    /\ calls'[c].op \in {"queueForTesting", "updateResults", "markFailed"}

\* The columns of a hypothesis row that say what the hypothesis is.
Identity(h) ==
    [ id |-> h.id, hypothesis |-> h.hypothesis, nullHypothesis |-> h.nullHypothesis,
      eventType |-> h.eventType, marketAsset |-> h.marketAsset, testType |-> h.testType,
      lookbackDays |-> h.lookbackDays, createdAt |-> h.createdAt ]

\* C13: every step of queueForTesting, updateResults and markFailed leaves
\* the hypothesis text, nullHypothesis, eventType, marketAsset, testType,
\* lookbackDays and createdAt of the hypothesis it names unchanged, and
\* leaves every other hypothesis row unchanged.
C13_EvaluatorFrame ==
    [][\A c \in Slots :
          EvaluatorStep(c) =>
              /\ Len(hyps') = Len(hyps)
              /\ \A i \in StoredIds :
                    /\ Identity(hyps'[i]) = Identity(hyps[i])
                    /\ i # calls'[c].id => hyps'[i] = hyps[i]]_vars

\* C13's case: with two hypotheses stored, an updateResults call has
\* written its results to the one it names, and the other one is not
\* Completed.
C13_Witness ==
    \E c \in Slots :
        /\ calls[c].op = "updateResults" /\ calls[c].pc = "emit"
        /\ Len(hyps) = 2
        /\ calls[c].id \in StoredIds
        /\ hyps[calls[c].id].status = COMPLETED
        /\ hyps[calls[c].id].pValue = calls[c].results.pValue
        /\ \E o \in StoredIds : o # calls[c].id /\ hyps[o].status = PENDING /\ hyps[o].pValue = Null

\* C14: no step removes a stored hypothesis or a stored relationship: the
\* set of stored hypothesis ids and the set of stored relationship ids only
\* grow.
C14_NeverDeleted ==
    [][/\ {hyps[i].id : i \in 1 .. Len(hyps)} \subseteq {hyps'[i].id : i \in 1 .. Len(hyps')}
       /\ {relationships[i].id : i \in 1 .. Len(relationships)}
             \subseteq {relationships'[i].id : i \in 1 .. Len(relationships')}]_vars

\* C14's case: the stored relationship was invalidated by an update and is
\* still stored, next to hypotheses that were evaluated.
C14_Witness ==
    /\ Len(relationships) = 1
    /\ ~relationships[1].isSignificant
    /\ relationships[1].validatedAt > 1
    /\ \E i \in StoredIds : hyps[i].status \in {COMPLETED, FAILED}

\* C15: findPending returns exactly the hypotheses whose status is Pending,
\* each once, in ascending order of createdAt, and none that is Running,
\* Completed or Failed.
C15_FindPendingFifo ==
    [][\A c \in Slots :
          (calls'[c] # calls[c] /\ calls'[c].op = "findPending") =>
              LET ret == calls'[c].ret
              IN /\ {ret[k] : k \in 1 .. Len(ret)} = {hyps[i] : i \in Matching(hyps, PENDING)}
                 /\ Len(ret) = Cardinality(Matching(hyps, PENDING))
                 /\ \A k \in 1 .. Len(ret) : ret[k].status = PENDING
                 /\ \A j, k \in 1 .. Len(ret) :
                       j < k => ret[j].createdAt < ret[k].createdAt]_vars

\* C15's case: findPending returned two Pending hypotheses.
C15_Witness ==
    \E c \in Slots :
        /\ calls[c].op = "findPending"
        /\ Len(calls[c].ret) = 2
        /\ calls[c].ret[1].createdAt < calls[c].ret[2].createdAt

\* C19: every hypothesis whose status is Failed has a recorded
\* errorMessage.
C19_FailedHasErrorMessage ==
    \A i \in StoredIds : hyps[i].status = FAILED => hyps[i].errorMessage # NullText

----------------------------------------------------------------------------
\* Vocabulary of the fetchWithRetry properties.

RetryRunning == retry.pc # "idle"

\* Positions of the invocations of fn, and of the sleeps, in the log.
CallsAt == {j \in 1 .. Len(retry.log) : retry.log[j].kind = "call"}

SleepsAt == {j \in 1 .. Len(retry.log) : retry.log[j].kind = "sleep"}

\* C16: with retries >= 1, fetchWithRetry invokes fn at most `retries`
\* times, returns the result of the first successful invocation without
\* invoking fn again, and when all `retries` invocations fail it rethrows
\* the error of the last one.
C16_RetryBounded ==
    (RetryRunning /\ retry.retries >= 1) =>
        /\ Cardinality(CallsAt) <= retry.retries
        /\ \A j \in CallsAt :
              retry.log[j].ok =>
                 /\ j = Len(retry.log)
                 /\ retry.pc = "done" /\ retry.outcome = "returned"
                 /\ retry.result = retry.log[j].n
        /\ retry.outcome = "returned" =>
              /\ Len(retry.log) > 0
              /\ retry.log[Len(retry.log)] = FnResolved(retry.result)
        /\ retry.outcome = "thrown" =>
              /\ Cardinality(CallsAt) = retry.retries
              /\ \A j \in CallsAt : ~retry.log[j].ok
              /\ retry.log[Len(retry.log)] = FnRejected(retry.retries)
              /\ retry.result = retry.retries

\* C16's case: the default three attempts all failed and the third error
\* was rethrown.
C16_Witness ==
    /\ RetryRunning /\ retry.retries = 3
    /\ retry.pc = "done" /\ retry.outcome = "thrown"
    /\ Cardinality(CallsAt) = 3
    /\ retry.result = 3

\* C17: the k-th wait is delay * 2^(k-1); each wait comes right after a
\* failed attempt and right before the next attempt, every attempt but the
\* first comes right after a wait, and no wait follows the final failed
\* attempt.
C17_BackoffExponential ==
    (RetryRunning /\ retry.retries >= 1) =>
        /\ \A j \in SleepsAt :
              /\ j > 1 /\ retry.log[j - 1].kind = "call" /\ ~retry.log[j - 1].ok
              /\ j < Len(retry.log) => retry.log[j + 1].kind = "call"
              /\ retry.log[j].ms =
                    retry.delay * Pow2(Cardinality({k \in SleepsAt : k < j}))
        /\ \A j \in CallsAt : j > 1 => retry.log[j - 1].kind = "sleep"
        /\ Cardinality(SleepsAt) <= retry.retries - 1
        /\ retry.pc = "done" => retry.log[Len(retry.log)].kind = "call"

\* C17's case: four attempts with the default delay waited 1000, 2000 and
\* 4000 ms.
C17_Witness ==
    /\ RetryRunning /\ retry.retries = 4 /\ retry.delay = 1000
    /\ retry.pc = "done" /\ retry.outcome = "thrown"
    /\ [j \in 1 .. 3 |-> retry.log[2 * j].ms] = <<1000, 2000, 4000>>

\* What is left of a fetchWithRetry call: it decreases with every step.
RetryMeasure ==
    IF retry.pc = "done" THEN 0
    ELSE 3 * (retry.retries - retry.i)
           + (CASE retry.pc = "loop" -> 3 [] retry.pc = "catch" -> 2 [] retry.pc = "sleep" -> 1)

\* C18: fetchWithRetry terminates for every finite `retries`, returning or
\* throwing, even when fn fails on every attempt: every step brings the
\* call closer to its end, and the call ends.
C18_RetryTerminates ==
    /\ [][RetryMeasure' < RetryMeasure /\ RetryMeasure' >= 0]_vars
    /\ [](retry.pc = "done" => retry.outcome \in {"returned", "thrown"})
    /\ <>(retry.pc = "done")

\* C18's case: fn failed on every one of the attempts and the call ended.
C18_Witness ==
    /\ RetryRunning /\ retry.retries = MaxRetries
    /\ retry.pc = "done" /\ retry.outcome = "thrown"
    /\ \A j \in CallsAt : ~retry.log[j].ok
    /\ Cardinality(CallsAt) = MaxRetries

----------------------------------------------------------------------------
\* C21: a queueForTesting call on an id that matches no hypothesis returns
\* null at once, changes no stored hypothesis and emits nothing.
C21_QueueMissingIsNoOp ==
    [][\A c \in Slots :
          ( /\ calls'[c] # calls[c]
            /\ calls'[c].op = "queueForTesting"
            /\ calls'[c].id \notin StoredIds )
          => /\ calls'[c].pc = "returned"
             /\ calls'[c].ret = NullRow
             /\ hyps' = hyps
             /\ events' = events]_vars

\* C21's case: with a hypothesis stored, queueForTesting on an id that
\* matches none has returned null.
C21_Witness ==
    \E c \in Slots :
        /\ calls[c].op = "queueForTesting" /\ calls[c].pc = "returned"
        /\ calls[c].id = MissingId
        /\ calls[c].ret = NullRow
        /\ Len(hyps) > 0

\* C22: every HYPOTHESIS_TESTED event names a stored hypothesis.
C22_TestedOnlyForStored ==
    \A k \in 1 .. Len(events) :
        events[k].type = "hypothesis.tested" => events[k].hypothesisId \in StoredIds

\* C23: when ANALYSIS_REQUESTED is emitted for a stored hypothesis its
\* status is Running, and when HYPOTHESIS_TESTED is emitted for one its
\* status equals the status of the payload.
C23_EmittedStatusAgrees ==
    [][Len(events') = Len(events) + 1 =>
          LET e == events'[Len(events')]
          IN /\ (e.type = "analysis.requested" /\ e.hypothesisId \in StoredIds)
                   => hyps[e.hypothesisId].status = RUNNING
             /\ (e.type = "hypothesis.tested" /\ e.hypothesisId \in StoredIds)
                   => hyps[e.hypothesisId].status = e.status]_vars

\* C26: the figures of getStats partition the population, in every state
\* and in every answer getStats gave: total = pending + running +
\* completed + failed, and significant <= completed.
C26_StatsPartition ==
    /\ Stats(hyps).total =
          Stats(hyps).pending + Stats(hyps).running + Stats(hyps).completed + Stats(hyps).failed
    /\ Stats(hyps).significant <= Stats(hyps).completed
    /\ \A c \in Slots :
          calls[c].op = "getStats" =>
              /\ calls[c].ret.total = calls[c].ret.pending + calls[c].ret.running
                                        + calls[c].ret.completed + calls[c].ret.failed
              /\ calls[c].ret.significant <= calls[c].ret.completed

\* C26's case: getStats answered for a population of two, one of them
\* Completed and significant, the other of another status.
C26_Witness ==
    \E c \in Slots :
        /\ calls[c].op = "getStats"
        /\ calls[c].ret.total = 2
        /\ calls[c].ret.completed = 1
        /\ calls[c].ret.significant = 1
        /\ calls[c].ret.failed + calls[c].ret.pending + calls[c].ret.running = 1

\* C28: no relationship_discovered alert is stored for a relationship
\* whose isSignificant flag is false.
C28_NoAlertForNonSignificant ==
    [][\A i \in (Len(alerts) + 1) .. Len(alerts') :
          alerts'[i].signalType = "relationship_discovered"
              => relationships[alerts'[i].relationshipId].isSignificant]_vars

\* C29: a hypothesis whose status is Completed has a null errorMessage.
C29_CompletedHasNoErrorMessage ==
    \A i \in StoredIds : hyps[i].status = COMPLETED => hyps[i].errorMessage = NullText

\* The stored relationship r meets both bounds of the automatic alert.
MeetsAlertBounds(r) ==
    /\ r \in 1 .. Len(relationships)
    /\ relationships[r].pValue < AlertMaxPValue
    /\ relationships[r].hitRate > AlertMinHitRate

\* The stored alerts, and the ALERT_TRIGGERED emissions, for relationship r.
AlertsFor(r) == {i \in 1 .. Len(alerts) : alerts[i].relationshipId = r}

TriggeredFor(r) ==
    {k \in 1 .. Len(events) :
        events[k].type = "alert.triggered" /\ events[k].relationshipId = r}

\* C27: a RelationshipsService.create whose pValue < 0.01 and hitRate > 0.6
\* leads to exactly one alert (relationship_discovered, severity high, the
\* relationship's id) and exactly one ALERT_TRIGGERED; a create that fails
\* either bound, pValue = 0.01 and hitRate = 0.6 included, leads to none.
C27_AlertExactlyWhenBoundsMet ==
    /\ [](\A r \in 1 .. MaxRels :
            /\ Cardinality(AlertsFor(r)) <= (IF MeetsAlertBounds(r) THEN 1 ELSE 0)
            /\ Cardinality(TriggeredFor(r)) <= Cardinality(AlertsFor(r))
            /\ \A i \in AlertsFor(r) :
                  /\ alerts[i].signalType = "relationship_discovered"
                  /\ alerts[i].severity = "high")
    /\ \A r \in 1 .. MaxRels :
          MeetsAlertBounds(r)
              ~> (Cardinality(AlertsFor(r)) = 1 /\ Cardinality(TriggeredFor(r)) = 1)

\* C27's case: the relationship was created with pValue just below 0.01 and
\* hitRate just above 0.6, and its one alert is stored and announced.
C27_Witness ==
    /\ MeetsAlertBounds(1)
    /\ relationships[1].pValue = AlertMaxPValue - 1
    /\ relationships[1].hitRate = AlertMinHitRate + 1
    /\ Cardinality(AlertsFor(1)) = 1
    /\ Cardinality(TriggeredFor(1)) = 1
    /\ alertTasks = {}

----------------------------------------------------------------------------
\* Vocabulary of the generateCommonHypotheses properties.

\* Call c of generateCommonHypotheses returns in this transition.
GenerateReturns(c) ==
    /\ calls[c].op = "generateCommonHypotheses" /\ calls[c].pc # "returned"
    /\ calls'[c].op = "generateCommonHypotheses" /\ calls'[c].pc = "returned"

\* The (eventType, marketAsset, testType) triple of a row or of a test.
Triple(h) ==
    [eventType |-> h.eventType, marketAsset |-> h.marketAsset, testType |-> h.testType]

\* The HYPOTHESIS_CREATED emissions.
CreatedEvents == {k \in 1 .. Len(events) : events[k].type = "hypothesis.created"}

\* C24: with calls made one after the other on a store that holds none of
\* the five triples, the first call creates and returns exactly the five
\* hypotheses of commonTests, each announced once, and every later call
\* creates nothing, emits nothing and returns an empty list.
C24_GenerateIdempotent ==
    [][/\ nreq >= 2 => (hyps' = hyps /\ events' = events)
       /\ \A c \in Slots :
             GenerateReturns(c) =>
                 IF nreq = 1
                 THEN /\ calls'[c].ret = hyps
                      /\ Len(hyps) = Len(CommonTests)
                      /\ \A k \in 1 .. Len(CommonTests) :
                            /\ Triple(hyps[k]) = Triple(CommonTests[k])
                            /\ hyps[k].hypothesis = CommonTests[k].hypothesis
                            /\ hyps[k].status = PENDING
                      /\ Len(events') = Len(CommonTests)
                      /\ \A k \in 1 .. Len(CommonTests) :
                            /\ events'[k].type = "hypothesis.created"
                            /\ events'[k].hypothesisId = k
                 ELSE calls'[c].ret = << >>]_vars

\* C24's case: one call has returned the five hypotheses it created and a
\* later call has returned an empty list.
C24_Witness ==
    /\ Len(hyps) = Len(CommonTests)
    /\ \E c, d \in Slots :
          /\ calls[c].op = "generateCommonHypotheses" /\ calls[c].pc = "returned"
          /\ calls[c].ret = hyps
          /\ calls[d].op = "generateCommonHypotheses" /\ calls[d].pc = "returned"
          /\ calls[d].ret = << >>
    /\ Cardinality(CreatedEvents) = Len(CommonTests)

\* C25: at most one hypothesis is stored for each (eventType, marketAsset,
\* testType) triple.
C25_OneHypothesisPerTriple ==
    \A i, j \in StoredIds : i # j => Triple(hyps[i]) # Triple(hyps[j])

----------------------------------------------------------------------------
\* Vocabulary of the PolymarketService properties.

\* The fetches of the log whose response lists market m.
FetchesListing(m, log) ==
    {n \in 1 .. Len(log) : \E i \in 1 .. Len(log[n]) : log[n][i].condition_id = m}

\* The latest of a non-empty set of fetches.
LatestFetch(fetches) == CHOOSE n \in fetches : \A o \in fetches : o <= n

\* The price the latest fetch listing m had for it.
RecordedPrice(m, log) ==
    LET markets == log[LatestFetch(FetchesListing(m, log))]
        i == CHOOSE j \in 1 .. Len(markets) : markets[j].condition_id = m
    IN CurrentPrice(markets[i])

\* The markets of a response that moved by 5 percent or more against the
\* price an earlier successful fetch recorded for them.
Movers(markets, log) ==
    {i \in 1 .. Len(markets) :
        /\ FetchesListing(markets[i].condition_id, log) # {}
        /\ LET recorded == RecordedPrice(markets[i].condition_id, log)
           IN /\ recorded > 0
              /\ Abs(CurrentPrice(markets[i]) - recorded) * 100 >= 5 * recorded}

\* The polymarket_price_move events of a list of RawEvents.
PriceMoves(ret) == {k \in 1 .. Len(ret) : ret[k].eventType = "polymarket_price_move"}

HighVolumes(ret) == {k \in 1 .. Len(ret) : ret[k].eventType = "polymarket_high_volume"}

\* The fetches of the log that listed market m with a volume above 100000.
FetchesAboveVolume(m, log) ==
    {n \in 1 .. Len(log) :
        \E i \in 1 .. Len(log[n]) :
            log[n][i].condition_id = m /\ log[n][i].volume > 100000}

\* C31: a successful fetch returns a polymarket_high_volume event for a
\* market only if no earlier successful fetch listed that market with a
\* volume above 100000.
C31_HighVolumeOnlyFirstTime ==
    [][Len(poly'.log) = Len(poly.log) + 1 =>
          \A k \in HighVolumes(poly'.ret) :
              FetchesAboveVolume(poly'.ret[k].entity, poly.log) = {}]_vars

\* C32: a fetch whose fetchActiveMarkets fails returns, with an empty event
\* list, and changes neither the recorded prices nor the log of
\* responses; the recorded prices are always those of the latest
\* successful fetch that listed each market, and they are what a price move
\* returned by a successful fetch reports as previousPrice.
C32_FailedFetchKeepsPrices ==
    [][/\ Len(poly'.errors) = Len(poly.errors) + 1 =>
            /\ poly.pc = "fetching" /\ poly'.pc = "returned"
            /\ poly'.ret = << >>
            /\ poly'.previousPrices = poly.previousPrices
            /\ poly'.log = poly.log
       /\ \A m \in DOMAIN poly'.previousPrices :
             /\ FetchesListing(m, poly'.log) # {}
             /\ poly'.previousPrices[m] = RecordedPrice(m, poly'.log)
       /\ Len(poly'.log) = Len(poly.log) + 1 =>
             \A k \in PriceMoves(poly'.ret) :
                 /\ poly'.ret[k].entity \in DOMAIN poly.previousPrices
                 /\ poly'.ret[k].previousPrice = poly.previousPrices[poly'.ret[k].entity]]_vars

\* C32's case: a fetch recorded a price, the next fetch failed, and the
\* fetch after it returned a price move against the price the first one
\* recorded.
C32_Witness ==
    /\ poly.pc = "returned"
    /\ Len(poly.log) = 2
    /\ poly.errors = <<1>>
    /\ \E k \in PriceMoves(poly.ret) :
          /\ FetchesListing(poly.ret[k].entity, SubSeq(poly.log, 1, 1)) # {}
          /\ poly.ret[k].previousPrice
                = RecordedPrice(poly.ret[k].entity, SubSeq(poly.log, 1, 1))

----------------------------------------------------------------------------
\* Vocabulary of the ingestion properties.

\* The ids of the rows of the events table that came from caller s.
RowsOf(s) == {i \in 1 .. Len(ingestion.rows) : ingestion.rows[i].source = SourceOf(s)}

\* Every RawEvent the fetch of source s returned is a row of the events
\* table, and the table has no other row of that source.
StoredFor(s) ==
    /\ Cardinality(RowsOf(s)) = Len(ingestion.src[s].raw)
    /\ \A k \in 1 .. Len(ingestion.src[s].raw) :
          \E i \in RowsOf(s) :
              /\ ingestion.rows[i].id = i
              /\ ingestion.rows[i].eventType = ingestion.src[s].raw[k].eventType
              /\ ingestion.rows[i].value = ingestion.src[s].raw[k].value

\* The EVENT_BATCH_CREATED emissions.
BatchEvents == {k \in 1 .. Len(events) : events[k].type = "event.batch.created"}

\* C33: during runAllIngestion a step of one source, a failure of its
\* fetch or of its save included, changes the progress of no other source
\* and removes no stored row; a source whose own fetch and save did not
\* fail has all its events in the events table once its save resolved, and
\* a source that failed has none; and a run that was started completes.
C33_SourcesIsolated ==
    /\ [][/\ \A s, t \in Sources :
                (s # t /\ ingestion.run = "running" /\ ingestion'.src[s] # ingestion.src[s])
                    => ingestion'.src[t] = ingestion.src[t]
          /\ Len(ingestion'.rows) >= Len(ingestion.rows)
          /\ SubSeq(ingestion'.rows, 1, Len(ingestion.rows)) = ingestion.rows]_vars
    /\ [](\A s \in Sources :
            /\ ingestion.src[s].pc \in {"emit", "complete"} => StoredFor(s)
            /\ ingestion.src[s].pc = "failed" => RowsOf(s) = {})
    /\ (ingestion.run = "running") ~> (ingestion.run = "complete")

\* C33's case: the run completed after the fetch of one source failed and
\* the save of another failed, and a third source's events are stored.
C33_Witness ==
    /\ ingestion.run = "complete"
    /\ \E s, t, u \in Sources :
          /\ ingestion.src[s].pc = "failed" /\ ingestion.src[s].raw = << >>
          /\ ingestion.src[t].pc = "failed" /\ ingestion.src[t].raw # << >>
          /\ ingestion.src[u].pc = "complete" /\ ingestion.src[u].raw # << >>
          /\ StoredFor(u)
          /\ RowsOf(s) = {} /\ RowsOf(t) = {}

\* The createBatch call that emits in this transition.
Emitter == CHOOSE c \in Callers : ingestion.src[c].pc = "emit" /\ ingestion'.src[c].pc = "complete"

\* The callers whose createBatch call has returned.
Returned == {c \in Callers : ingestion.src[c].pc = "complete" /\ (c = "api" \/ ingestion.src[c].raw # << >>)}

\* C34: every emission is one EVENT_BATCH_CREATED, made by a createBatch
\* call whose save has already stored its rows, with the number of those
\* rows as count and exactly their ids as eventIds, and it is that call's
\* only emission; a call whose save failed emits nothing, no EVENT_CREATED
\* is emitted, and a source whose fetch returned no event saves nothing and
\* emits nothing.
C34_OneBatchEventPerSave ==
    /\ [][events' # events =>
            /\ Len(events') = Len(events) + 1
            /\ SubSeq(events', 1, Len(events)) = events
            /\ ingestion'.rows = ingestion.rows
            /\ \E c \in Callers :
                  ingestion.src[c].pc = "emit" /\ ingestion'.src[c].pc = "complete"
            /\ LET payload == events'[Len(events')]
               IN /\ payload.type = "event.batch.created"
                  /\ StoredFor(Emitter)
                  /\ payload.count = Cardinality(RowsOf(Emitter))
                  /\ payload.source = (IF payload.count = 0 THEN "unknown"
                                       ELSE SourceOf(Emitter))
                  /\ Len(payload.eventIds) = payload.count
                  /\ {payload.eventIds[i] : i \in 1 .. Len(payload.eventIds)}
                        = RowsOf(Emitter)]_vars
    /\ [](/\ \A k \in 1 .. Len(events) : events[k].type # "event.created"
          /\ Cardinality(BatchEvents) = Cardinality(Returned)
          /\ \A c \in Returned :
                \E k \in BatchEvents :
                    /\ events[k].count = Len(ingestion.src[c].raw)
                    /\ events[k].count > 0 => events[k].source = SourceOf(c)
          /\ \A s \in Sources :
                ingestion.src[s].raw = << >> =>
                    /\ ingestion.src[s].pc \notin {"save", "emit"}
                    /\ RowsOf(s) = {}
                    /\ \A k \in BatchEvents : events[k].source # s)

\* C34's case: one source saved a batch of two events and emitted it with
\* count 2 and their two ids after another caller had stored a row, a
\* source whose fetch returned no event completed without a row or an
\* emission, a source whose save failed emitted nothing, and a request
\* with an empty body emitted a batch of count 0.
C34_Witness ==
    \E s, t, u \in Sources :
        /\ ingestion.src[s].pc = "complete" /\ Len(ingestion.src[s].raw) = 2
        /\ \E k \in BatchEvents :
              /\ events[k].source = s /\ events[k].count = 2
              /\ {events[k].eventIds[i] : i \in 1 .. 2} = RowsOf(s)
              /\ 1 \notin RowsOf(s)
        /\ ingestion.src[t].pc = "complete" /\ ingestion.src[t].raw = << >>
        /\ RowsOf(t) = {} /\ \A k \in BatchEvents : events[k].source # t
        /\ ingestion.src[u].pc = "failed" /\ ingestion.src[u].raw # << >>
        /\ \A k \in BatchEvents : events[k].source # u
        /\ ingestion.src["api"].pc = "complete" /\ ingestion.src["api"].raw = << >>
        /\ \E k \in BatchEvents :
              events[k].count = 0 /\ events[k].source = "unknown" /\ events[k].eventIds = << >>

====
